---- MODULE Spec2Model ----
(***************************************************************************)
(* A model of the text layout examples of zfedoran/skia-examples.          *)
(*                                                                         *)
(* Each example is one `main`; a behaviour of the model is one run of one  *)
(* example (`prog`), from the state after the fonts are loaded to the end  *)
(* of main.  The text, and the fonts' character maps and units-per-em, are *)
(* the inputs and are drawn in Init.                                       *)
(*                                                                         *)
(* Pixel quantities (f32 in the source) are kept as integers in units of   *)
(* 1/64 pixel, so that `v as f32 / 64.0` of an engine value v is v itself  *)
(* and 50.0 is 50 * 64.  The values the model reaches are far below 2^24,  *)
(* where f32 is exact for them.                                            *)
(***************************************************************************)
EXTENDS Integers, Sequences, FiniteSets, TLC

VARIABLES
    prog,           \* which example's main is running
    pc,             \* position in that main
    text,           \* `text`: the logical string, a sequence of code points
    primary_font,   \* primary_font / hb_font_primary / hb_font / face
    fallback_font,  \* fallback_font / hb_font_fallback
    idx,            \* position of the running `for` loop (chars, clusters, runs, glyphs)
    runs,           \* example-2 `runs`: Vec<(String, bool)>
    current_run,    \* example-2 `current_run`
    use_primary,    \* example-2 `use_primary`
    x,              \* example-2 / example-3 `x`
    drawn,          \* what was handed to the canvas, in order
    hb_font_primary,   \* hb_font_primary / hb_font: the HarfBuzz font
    hb_font_fallback,  \* hb_font_fallback
    shaped_runs,    \* example-4 `shaped_runs`: Vec<(infos, positions, FontChoice)>
    blob,           \* the runs allocated in `blob_builder`, with their glyphs and points
    x_cursor,       \* example-4 `x_cursor`
    local_x,        \* example-4 `local_x`
    gi,             \* example-4: the inner loop's `i`
    error,          \* the Err main returned, "none" while it has returned none
    display_text,   \* example-3 `display_text`
    glyph_infos,    \* `glyph_infos` of the shaping result
    glyph_positions,  \* `glyph_positions` of the shaping result
    total_width,    \* example-3 `total_width`
    ctm,            \* the canvas' current transform
    saved,          \* the canvas' stack of saved transforms
    x_accum,        \* example-5 / example-6 `x_accum`
    ft_bad,         \* the glyph ids FreeType's load_glyph fails for
    image           \* the image file: whether it was written and what it shows

vars == <<prog, pc, text, primary_font, fallback_font, idx, runs, current_run,
          use_primary, x, drawn, hb_font_primary, hb_font_fallback, shaped_runs,
          blob, x_cursor, local_x, gi, error, display_text, glyph_infos,
          glyph_positions, total_width, ctm, saved, x_accum, ft_bad, image>>

\* No image file was written.
NoImage == [written |-> FALSE, content |-> <<>>]

\* fs::write of the encoded snapshot of a surface showing `content`.
Written(content) == [written |-> TRUE, content |-> content]

\* The fonts and the text: set before the pipeline starts, never written by it.
inputs == <<prog, text, primary_font, fallback_font, ft_bad>>

\* The state of example-2's main.
vars2 == <<runs, current_run, use_primary>>

\* The state of the HarfBuzz pipelines.
varsHb == <<hb_font_primary, hb_font_fallback>>

\* The state of example-4's main.
vars4 == <<shaped_runs, blob, x_cursor, local_x, gi>>

\* The state of example-3's main.
vars3 == <<display_text, glyph_infos, glyph_positions, total_width, ctm, saved>>

\* The state of example-5's and example-6's main.
vars56 == <<x_accum>>

---------------------------------------------------------------------------
(* Bounds of the model *)

MaxLen == 3

---------------------------------------------------------------------------
(* Code points.  "a" a Latin letter, "r" an Arabic letter, "E" an emoji    *)
(* (Extended_Pictographic), "z" U+200D ZERO WIDTH JOINER (Grapheme_Extend, *)
(* default ignorable).                                                     *)

CodePoints == {"a", "r", "E", "z"}

IsExtend(c) == c = "z"

IsPictographic(c) == c = "E"

IsDefaultIgnorable(c) == c = "z"

RECURSIVE SeqsUpTo(_, _)
SeqsUpTo(S, n) ==
    IF n = 0 THEN {<<>>}
    ELSE LET shorter == SeqsUpTo(S, n - 1)
         IN  shorter \cup {Append(s, c) : s \in {t \in shorter : Len(t) = n - 1}, c \in S}

Texts == SeqsUpTo(CodePoints, MaxLen)

RECURSIVE SumSeq(_)
SumSeq(s) == IF s = <<>> THEN 0 ELSE Head(s) + SumSeq(Tail(s))

RECURSIVE Concat(_)
Concat(ss) == IF ss = <<>> THEN <<>> ELSE Head(ss) \o Concat(Tail(ss))

\* UAX #29 as `text.graphemes(true)` applies it to these code points: no
\* break before an Extend or ZWJ (GB9), none inside an emoji ZWJ sequence
\* (GB11), a break everywhere else (GB999).
NoBreakBefore(t, i) ==
    \/ IsExtend(t[i])
    \/ /\ IsPictographic(t[i])
       /\ t[i - 1] = "z"
       /\ \E j \in 1..(i - 2) :
              /\ IsPictographic(t[j])
              /\ \A k \in (j + 1)..(i - 1) : IsExtend(t[k])

ClusterStarts(t) == {i \in 1..Len(t) : i = 1 \/ ~NoBreakBefore(t, i)}

\* The end of the cluster that starts at i.
ClusterEnd(t, i) ==
    LET later == {j \in ClusterStarts(t) : j > i}
    IN  IF later = {} THEN Len(t)
        ELSE (CHOOSE j \in later : \A k \in later : j <= k) - 1

RECURSIVE GraphemesFrom(_, _)
GraphemesFrom(t, i) ==
    IF i > Len(t) THEN <<>>
    ELSE <<SubSeq(t, i, ClusterEnd(t, i))>> \o GraphemesFrom(t, ClusterEnd(t, i) + 1)

\* `text.graphemes(true)`: the extended grapheme clusters of the text, in order.
Graphemes(t) == GraphemesFrom(t, 1)

---------------------------------------------------------------------------
(* Fonts.  A face is its character map (the code points it has a glyph     *)
(* for), its units per em, and whether it is a large font, one of more     *)
(* than 65,535 glyphs, whose emoji glyph has an id beyond 16 bits.         *)

Upems == {1000, 2048}

Faces == [cmap : SUBSET CodePoints, upem : Upems, large : BOOLEAN]

\* The glyph index a face gives a code point it maps; 0 is .notdef.
GlyphIndex(face, c) ==
    CASE c = "a" -> 1
      [] c = "r" -> 2
      [] c = "E" -> IF face.large THEN 65539 ELSE 3
      [] c = "z" -> 4

\* cmap lookup: the glyph of one code point in a face.
NominalGlyph(face, c) == IF c \in face.cmap THEN GlyphIndex(face, c) ELSE 0

\* Horizontal advance of a glyph in font design units.
AdvanceDU(face, gid) ==
    CASE gid = 0 -> face.upem \div 2
      [] gid = 1 -> face.upem \div 2
      [] gid = 2 -> face.upem \div 4
      [] gid \in {3, 65539} -> face.upem
      [] gid = 4 -> 0

\* A Skia font of `size` pixels: the advance of a glyph, in 1/64 pixel.
SkiaAdvance(face, size, gid) == (AdvanceDU(face, gid) * size * 64) \div face.upem

\* Font::text_to_glyphs: one glyph per code point, through the character map.
TextToGlyphs(face, s) == [i \in 1..Len(s) |-> NominalGlyph(face, s[i])]

\* Font::measure_str: the advance width of the string.
MeasureStr(face, size, s) ==
    SumSeq([i \in 1..Len(s) |-> SkiaAdvance(face, size, TextToGlyphs(face, s)[i])])

PrimaryFaces ==
    [cmap : SUBSET CodePoints, upem : {1000}, large : {FALSE}]
        \cup {[cmap |-> CodePoints, upem |-> 2048, large |-> FALSE]}

FallbackFaces ==
    {[cmap |-> {"E", "z"}, upem |-> 2048, large |-> FALSE],
     [cmap |-> {"E"}, upem |-> 1000, large |-> FALSE]}

\* The fallback fonts example-4 is run with: those and a large emoji font.
FallbackFaces4 ==
    FallbackFaces \cup {[cmap |-> {"E"}, upem |-> 2048, large |-> TRUE]}

\* The canvas transform x' = sx * x + tx, y' = y + ty of a new canvas.
Identity == [sx |-> 1, tx |-> 0, ty |-> 0]

\* No HarfBuzz font: the example creates none.
NoFont == [face |-> "none"]

---------------------------------------------------------------------------
(* example-2: font fallback by character, drawn with Canvas::draw_str *)

font_size == 20

\* `let mut x = 50.0` / `let y = 50.0`, in 1/64 pixel
StartX2 == 50 * 64

StartY2 == 50 * 64

\* has_glyph without the test for the missing glyph.
has_glyph_CountOnly(font, c) ==
    LET s == <<c>>
        glyphs == TextToGlyphs(font, s)
        count == Len(glyphs)
    IN  count > 0

has_glyph(font, c) ==
    LET s == <<c>>
        glyphs == TextToGlyphs(font, s)
        count == Len(glyphs)
    IN  count > 0 /\ glyphs[1] # 0

Init2 ==
    /\ prog = "ex2"
    /\ pc = "segment"
    /\ text \in Texts
    /\ primary_font \in PrimaryFaces
    /\ fallback_font \in FallbackFaces
    /\ idx = 1
    /\ runs = <<>>
    /\ current_run = <<>>
    /\ use_primary = FALSE
    /\ x = StartX2
    /\ drawn = <<>>
    /\ hb_font_primary = NoFont
    /\ hb_font_fallback = NoFont
    /\ shaped_runs = <<>>
    /\ blob = <<>>
    /\ x_cursor = 0
    /\ local_x = 0
    /\ gi = 0
    /\ error = "none"
    /\ display_text = <<>>
    /\ glyph_infos = <<>>
    /\ glyph_positions = <<>>
    /\ total_width = 0
    /\ ctm = Identity
    /\ saved = <<>>
    /\ x_accum = 0
    /\ image = NoImage
    /\ ft_bad = {}

\* SegmentChar that loses the character at which the font switches.
SegmentChar_DropOnSwitch ==
    /\ prog = "ex2" /\ pc = "segment" /\ idx <= Len(text)
    /\ LET c == text[idx]
           can_primary_render == has_glyph(primary_font, c)
       IN  IF current_run = <<>>
           THEN /\ use_primary' = can_primary_render
                /\ current_run' = Append(current_run, c)
                /\ runs' = runs
           ELSE IF can_primary_render = use_primary
           THEN /\ current_run' = Append(current_run, c)
                /\ UNCHANGED <<use_primary, runs>>
           ELSE /\ runs' = Append(runs, <<current_run, use_primary>>)
                /\ current_run' = <<>>
                /\ use_primary' = can_primary_render
    /\ idx' = idx + 1
    /\ UNCHANGED <<inputs, image, pc, x, drawn, varsHb, vars4, error, vars3, vars56>>

\* SegmentChar that does not tag the first run.
SegmentChar_NoFirstTag ==
    /\ prog = "ex2" /\ pc = "segment" /\ idx <= Len(text)
    /\ LET c == text[idx]
           can_primary_render == has_glyph(primary_font, c)
       IN  IF current_run = <<>>
           THEN /\ current_run' = Append(current_run, c)
                /\ UNCHANGED <<use_primary, runs>>
           ELSE IF can_primary_render = use_primary
           THEN /\ current_run' = Append(current_run, c)
                /\ UNCHANGED <<use_primary, runs>>
           ELSE /\ runs' = Append(runs, <<current_run, use_primary>>)
                /\ current_run' = <<c>>
                /\ use_primary' = can_primary_render
    /\ idx' = idx + 1
    /\ UNCHANGED <<inputs, image, pc, x, drawn, varsHb, vars4, error, vars3, vars56>>

\* One iteration of `for c in text.chars()`.
SegmentChar ==
    /\ prog = "ex2" /\ pc = "segment" /\ idx <= Len(text)
    /\ LET c == text[idx]
           can_primary_render == has_glyph(primary_font, c)
       IN  IF current_run = <<>>
           THEN /\ use_primary' = can_primary_render
                /\ current_run' = Append(current_run, c)
                /\ runs' = runs
           ELSE IF can_primary_render = use_primary
           THEN /\ current_run' = Append(current_run, c)
                /\ UNCHANGED <<use_primary, runs>>
           ELSE /\ runs' = Append(runs, <<current_run, use_primary>>)
                /\ current_run' = <<c>>
                /\ use_primary' = can_primary_render
    /\ idx' = idx + 1
    /\ UNCHANGED <<inputs, image, pc, x, drawn, varsHb, vars4, error, vars3, vars56>>

\* FlushRun that pushes the current run even when it is empty.
FlushRun_Unconditional ==
    /\ prog = "ex2" /\ pc = "segment" /\ idx > Len(text)
    /\ runs' = Append(runs, <<current_run, use_primary>>)
    /\ pc' = "draw"
    /\ idx' = 1
    /\ UNCHANGED <<inputs, image, current_run, use_primary, x, drawn, varsHb, vars4,
                   error, vars3, vars56>>

\* The loop is over; `if !current_run.is_empty() { runs.push(..) }`.
FlushRun ==
    /\ prog = "ex2" /\ pc = "segment" /\ idx > Len(text)
    /\ runs' = IF current_run # <<>>
               THEN Append(runs, <<current_run, use_primary>>)
               ELSE runs
    /\ pc' = "draw"
    /\ idx' = 1
    /\ UNCHANGED <<inputs, image, current_run, use_primary, x, drawn, varsHb, vars4,
                   error, vars3, vars56>>

\* One iteration of `for (run, use_primary_font) in runs`.
DrawRun ==
    /\ prog = "ex2" /\ pc = "draw" /\ idx <= Len(runs)
    /\ LET run == runs[idx][1]
           use_primary_font == runs[idx][2]
           font == IF use_primary_font THEN primary_font ELSE fallback_font
           run_width == MeasureStr(font, font_size, run)
       IN  /\ drawn' = Append(drawn, [run |-> run, x |-> x, y |-> StartY2,
                                      font |-> IF use_primary_font THEN "Primary"
                                               ELSE "Fallback"])
           /\ x' = x + run_width
    /\ idx' = idx + 1
    /\ UNCHANGED <<inputs, image, pc, vars2, varsHb, vars4, error, vars3, vars56>>

\* The draw loop is over; the image is encoded and written.
SaveImage2 ==
    /\ prog = "ex2" /\ pc = "draw" /\ idx > Len(runs)
    /\ pc' = "done"
    /\ image' = Written(drawn)
    /\ UNCHANGED <<inputs, idx, vars2, x, drawn, varsHb, vars4, error, vars3, vars56>>

---------------------------------------------------------------------------
(* The shaping engine (HarfBuzz), as far as the examples depend on it.     *)

\* HbFont::new: a font over the face; HarfBuzz sets its scale to the face's
\* units per em until set_scale is called, so it reports font design units.
HbFontNew(face) == [face |-> face, x_scale |-> face.upem, scale_set |-> FALSE]

\* Font::set_scale(s, s)
SetScale(font, s) == [font EXCEPT !.x_scale = s, !.scale_set = TRUE]

\* A design-unit value as the font reports it: scaled by x_scale / upem.
HbScaled(font, v) == (v * font.x_scale) \div font.face.upem

\* Offsets of a glyph in design units: the joiner's glyph is drawn over the
\* preceding glyph, every other glyph sits on the pen position.
XOffsetDU(face, gid) == IF gid = 4 THEN -(face.upem \div 8) ELSE 0

YOffsetDU(face, gid) == IF gid = 4 THEN face.upem \div 8 ELSE 0

Reverse(s) == [i \in 1..Len(s) |-> s[Len(s) + 1 - i]]

\* The direction guess_segment_properties gives a buffer whose direction was
\* not set: that of the script of the first character that has one.
GuessDirection(s) ==
    LET strong == SelectSeq(s, LAMBDA c : c \in {"a", "r"})
    IN  IF strong # <<>> /\ Head(strong) = "r" THEN "Rtl" ELSE "Ltr"

\* shape(font, buffer): one glyph per code point through the character map
\* (.notdef where the face has none); a default-ignorable code point the face
\* has no glyph for is removed from the output; the glyphs come in visual
\* order, that is reversed when the direction is right-to-left.
HbShape(font, s, dir) ==
    LET kept == SelectSeq(s, LAMBDA c : c \in font.face.cmap \/ ~IsDefaultIgnorable(c))
        gid(i) == NominalGlyph(font.face, kept[i])
        infos == [i \in 1..Len(kept) |-> [codepoint |-> gid(i)]]
        positions == [i \in 1..Len(kept) |->
                         [x_advance |-> HbScaled(font, AdvanceDU(font.face, gid(i))),
                          x_offset  |-> HbScaled(font, XOffsetDU(font.face, gid(i))),
                          y_offset  |-> HbScaled(font, YOffsetDU(font.face, gid(i)))]]
    IN  IF dir = "Rtl"
        THEN [infos |-> Reverse(infos), positions |-> Reverse(positions)]
        ELSE [infos |-> infos, positions |-> positions]

\* `v as u16`
U16(v) == v % 65536

\* `v as f32 / 64.0`: a 26.6 fixed-point value in pixels; the model keeps
\* pixels in units of 1/64.
Div64(v) == (v * 64) \div 64

\* `v as f32 * scale`, scale = size / upem: a design-unit value in pixels.
TimesScale(v, size, upem) == (v * size * 64) \div upem

---------------------------------------------------------------------------
(* example-4: font fallback by grapheme cluster, shaped with HarfBuzz *)

px_size == 20

\* `let hb_scale = (px_size * 64.) as i32`
hb_scale == px_size * 64

\* The baseline of the blob's glyphs: `50.0 + y_offset`, in 1/64 pixel
BaselineY4 == 50 * 64

shape_cluster(hb_font, cluster) == HbShape(hb_font, cluster, GuessDirection(cluster))

Init4 ==
    /\ prog = "ex4"
    /\ pc = "set_scale"
    /\ text \in Texts
    /\ primary_font \in PrimaryFaces
    /\ fallback_font \in FallbackFaces4
    /\ hb_font_primary = HbFontNew(primary_font)
    /\ hb_font_fallback = HbFontNew(fallback_font)
    /\ idx = 1
    /\ runs = <<>>
    /\ current_run = <<>>
    /\ use_primary = FALSE
    /\ x = 0
    /\ drawn = <<>>
    /\ shaped_runs = <<>>
    /\ blob = <<>>
    /\ x_cursor = 0
    /\ local_x = 0
    /\ gi = 0
    /\ error = "none"
    /\ display_text = <<>>
    /\ glyph_infos = <<>>
    /\ glyph_positions = <<>>
    /\ total_width = 0
    /\ ctm = Identity
    /\ saved = <<>>
    /\ x_accum = 0
    /\ image = NoImage
    /\ ft_bad = {}

\* hb_font_primary.set_scale(hb_scale, hb_scale); hb_font_fallback likewise.
SetScale4 ==
    /\ prog = "ex4" /\ pc = "set_scale"
    /\ hb_font_primary' = SetScale(hb_font_primary, hb_scale)
    /\ hb_font_fallback' = SetScale(hb_font_fallback, hb_scale)
    /\ pc' = "shape"
    /\ UNCHANGED <<inputs, image, idx, vars2, x, drawn, vars4, error, vars3, vars56>>

\* ShapeCluster4 that extends the last entry when the cluster selects its font.
ShapeCluster4_Merge ==
    /\ prog = "ex4" /\ pc = "shape" /\ idx <= Len(Graphemes(text))
    /\ LET cluster == Graphemes(text)[idx]
           shaped == shape_cluster(hb_font_primary, cluster)
           has_valid_glyph == \E i \in 1..Len(shaped.infos) : shaped.infos[i].codepoint # 0
           shaped_fb == shape_cluster(hb_font_fallback, cluster)
           entry == IF has_valid_glyph
                    THEN <<shaped.infos, shaped.positions, "Primary">>
                    ELSE <<shaped_fb.infos, shaped_fb.positions, "Fallback">>
           n == Len(shaped_runs)
       IN  shaped_runs' =
               IF n > 0 /\ shaped_runs[n][3] = entry[3]
               THEN [shaped_runs EXCEPT ![n] = <<@[1] \o entry[1], @[2] \o entry[2], @[3]>>]
               ELSE Append(shaped_runs, entry)
    /\ idx' = idx + 1
    /\ UNCHANGED <<inputs, image, pc, vars2, x, drawn, varsHb, blob, x_cursor, local_x,
                   gi, error, vars3, vars56>>

\* ShapeCluster4 that looks at the first glyph of the cluster only.
ShapeCluster4_FirstGlyphOnly ==
    /\ prog = "ex4" /\ pc = "shape" /\ idx <= Len(Graphemes(text))
    /\ LET cluster == Graphemes(text)[idx]
           shaped == shape_cluster(hb_font_primary, cluster)
           has_valid_glyph == Len(shaped.infos) > 0 /\ shaped.infos[1].codepoint # 0
           shaped_fb == shape_cluster(hb_font_fallback, cluster)
       IN  shaped_runs' =
               IF has_valid_glyph
               THEN Append(shaped_runs, <<shaped.infos, shaped.positions, "Primary">>)
               ELSE Append(shaped_runs, <<shaped_fb.infos, shaped_fb.positions, "Fallback">>)
    /\ idx' = idx + 1
    /\ UNCHANGED <<inputs, image, pc, vars2, x, drawn, varsHb, blob, x_cursor, local_x,
                   gi, error, vars3, vars56>>

\* One iteration of `for cluster in graphemes`.
ShapeCluster4 ==
    /\ prog = "ex4" /\ pc = "shape" /\ idx <= Len(Graphemes(text))
    /\ LET cluster == Graphemes(text)[idx]
           shaped == shape_cluster(hb_font_primary, cluster)
           has_valid_glyph == \E i \in 1..Len(shaped.infos) : shaped.infos[i].codepoint # 0
           shaped_fb == shape_cluster(hb_font_fallback, cluster)
       IN  shaped_runs' =
               IF has_valid_glyph
               THEN Append(shaped_runs, <<shaped.infos, shaped.positions, "Primary">>)
               ELSE Append(shaped_runs, <<shaped_fb.infos, shaped_fb.positions, "Fallback">>)
    /\ idx' = idx + 1
    /\ UNCHANGED <<inputs, image, pc, vars2, x, drawn, varsHb, blob, x_cursor, local_x,
                   gi, error, vars3, vars56>>

\* The clusters are shaped; `TextBlobBuilder::new()`, `let mut x_cursor = 0.0`.
BeginAssembly4 ==
    /\ prog = "ex4" /\ pc = "shape" /\ idx > Len(Graphemes(text))
    /\ blob' = <<>>
    /\ x_cursor' = 0
    /\ idx' = 1
    /\ pc' = "assemble"
    /\ UNCHANGED <<inputs, image, vars2, x, drawn, varsHb, shaped_runs, local_x, gi,
                   error, vars3, vars56>>

\* The head of one iteration of `for (infos, positions, which_font) in shaped_runs`:
\* an entry without glyphs is passed over, any other gets a run of the blob.
StartRun4 ==
    /\ prog = "ex4" /\ pc = "assemble" /\ idx <= Len(shaped_runs)
    /\ LET infos == shaped_runs[idx][1]
           which_font == shaped_runs[idx][3]
           count == Len(infos)
       IN  IF count = 0
           THEN /\ idx' = idx + 1
                /\ UNCHANGED <<pc, blob, local_x, gi>>
           ELSE /\ blob' = Append(blob, [font |-> which_font, glyphs |-> <<>>,
                                         point_positions |-> <<>>])
                /\ local_x' = 0
                /\ gi' = 1
                /\ pc' = "place"
                /\ idx' = idx
    /\ UNCHANGED <<inputs, image, vars2, x, drawn, varsHb, shaped_runs, x_cursor, error,
                   vars3, vars56>>

\* One iteration of `for i in 0..count`.
PlaceGlyph4 ==
    /\ prog = "ex4" /\ pc = "place" /\ gi <= Len(shaped_runs[idx][1])
    /\ LET info == shaped_runs[idx][1][gi]
           pos == shaped_runs[idx][2][gi]
           x_offset == Div64(pos.x_offset)
           y_offset == Div64(pos.y_offset)
           x_advance == Div64(pos.x_advance)
           r == Len(blob)
       IN  /\ blob' = [blob EXCEPT
                          ![r].glyphs = Append(@, U16(info.codepoint)),
                          ![r].point_positions =
                              Append(@, <<x_cursor + local_x + x_offset,
                                          BaselineY4 + y_offset>>)]
           /\ local_x' = local_x + x_advance
    /\ gi' = gi + 1
    /\ UNCHANGED <<inputs, image, pc, idx, vars2, x, drawn, varsHb, shaped_runs,
                   x_cursor, error, vars3, vars56>>

\* EndRun4 that sets the cursor to the run's width instead of adding it.
EndRun4_Assign ==
    /\ prog = "ex4" /\ pc = "place" /\ gi > Len(shaped_runs[idx][1])
    /\ x_cursor' = local_x
    /\ idx' = idx + 1
    /\ pc' = "assemble"
    /\ UNCHANGED <<inputs, image, vars2, x, drawn, varsHb, shaped_runs, blob, local_x,
                   gi, error, vars3, vars56>>

\* The run's glyphs are placed: `x_cursor += local_x`.
EndRun4 ==
    /\ prog = "ex4" /\ pc = "place" /\ gi > Len(shaped_runs[idx][1])
    /\ x_cursor' = x_cursor + local_x
    /\ idx' = idx + 1
    /\ pc' = "assemble"
    /\ UNCHANGED <<inputs, image, vars2, x, drawn, varsHb, shaped_runs, blob, local_x,
                   gi, error, vars3, vars56>>

\* `blob_builder.make().ok_or("Failed to build text blob")?`: a builder that
\* was given no run makes no blob.
MakeBlob4 ==
    /\ prog = "ex4" /\ pc = "assemble" /\ idx > Len(shaped_runs)
    /\ IF blob = <<>>
       THEN /\ error' = "Failed to build text blob"
            /\ pc' = "failed"
       ELSE /\ pc' = "draw"
            /\ error' = error
    /\ UNCHANGED <<inputs, image, idx, vars2, x, drawn, varsHb, vars4, vars3, vars56>>

\* canvas.draw_text_blob(&text_blob, (50, 25), &paint), and the image is written.
DrawBlob4 ==
    /\ prog = "ex4" /\ pc = "draw"
    /\ drawn' = Append(drawn, [blob |-> blob, at |-> <<50 * 64, 25 * 64>>])
    /\ pc' = "done"
    /\ image' = Written(drawn')
    /\ UNCHANGED <<inputs, idx, vars2, x, varsHb, vars4, error, vars3, vars56>>

---------------------------------------------------------------------------
(* example-3: right-to-left text, reordered, shaped and drawn mirrored *)

\* Bidi_Class of a code point: L, R (Arabic letter) or a neutral.
BidiClass(c) == CASE c = "a" -> "L" [] c = "r" -> "R" [] OTHER -> "ON"

\* The strong classes of t at the positions in `range`, in order.
StrongIn(t, lo, hi) ==
    SelectSeq([k \in 1..(hi - lo + 1) |-> BidiClass(t[lo + k - 1])],
              LAMBDA b : b \in {"L", "R"})

\* BidiInfo::new(text, None): the paragraph level is that of the first strong
\* character, 0 when there is none (rules P2, P3).
ParaLevel(t) ==
    LET strong == StrongIn(t, 1, Len(t))
    IN  IF strong # <<>> /\ Head(strong) = "R" THEN 1 ELSE 0

\* The direction a character resolves to: its own when strong; a neutral takes
\* the direction of the strong characters around it when they agree (the
\* paragraph's at either end of the text), else the paragraph's (rules N1, N2).
ResolvedDir(t, i) ==
    LET e == IF ParaLevel(t) = 1 THEN "R" ELSE "L"
        before == StrongIn(t, 1, i - 1)
        after == StrongIn(t, i + 1, Len(t))
        prev == IF before = <<>> THEN e ELSE before[Len(before)]
        next == IF after = <<>> THEN e ELSE Head(after)
    IN  IF BidiClass(t[i]) \in {"L", "R"} THEN BidiClass(t[i])
        ELSE IF prev = next THEN prev ELSE e

\* The embedding level of a character (rules I1, I2).
BidiLevel(t, i) ==
    IF ParaLevel(t) = 0
    THEN (IF ResolvedDir(t, i) = "R" THEN 1 ELSE 0)
    ELSE (IF ResolvedDir(t, i) = "L" THEN 2 ELSE 1)

\* Rule L2 for one level: every maximal run of positions whose level is at
\* least lvl is reversed.  `order` is a sequence of positions of t.
RECURSIVE ReverseRuns(_, _, _)
ReverseRuns(t, order, lvl) ==
    IF order = <<>> THEN <<>>
    ELSE IF BidiLevel(t, Head(order)) < lvl
    THEN <<Head(order)>> \o ReverseRuns(t, Tail(order), lvl)
    ELSE LET stops == {k \in 1..Len(order) : BidiLevel(t, order[k]) < lvl}
             n == IF stops = {} THEN Len(order)
                  ELSE (CHOOSE k \in stops : \A j \in stops : k <= j) - 1
         IN  Reverse(SubSeq(order, 1, n))
                 \o ReverseRuns(t, SubSeq(order, n + 1, Len(order)), lvl)

\* bidi_info.reorder_line(para, para.range): the text in visual order.
reorder_line(t) ==
    LET logical == [i \in 1..Len(t) |-> i]
        visual == ReverseRuns(t, ReverseRuns(t, logical, 2), 1)
    IN  [i \in 1..Len(t) |-> t[visual[i]]]

BidiTexts == SeqsUpTo({"a", "r", "E"}, MaxLen)

\* The faces the single-font examples are run with.
ShapingFaces ==
    [cmap : {CodePoints, {"a", "r"}, {"r", "z"}, {}}, upem : Upems, large : {FALSE}]
        \cup {[cmap |-> CodePoints, upem |-> 1000, large |-> TRUE]}

\* `let origin_x = 50.0` / `let origin_y = 50.0`, in 1/64 pixel
OriginX3 == 50 * 64

OriginY3 == 50 * 64

\* Canvas::translate
Translate(m, dx, dy) == [m EXCEPT !.tx = @ + m.sx * dx, !.ty = @ + dy]

\* Canvas::scale((sx, 1.0))
ScaleX(m, sx) == [m EXCEPT !.sx = @ * sx]

\* The x a point of the drawn blob gets on the surface under the transform m.
DeviceX(m, px) == m.sx * px + m.tx

Init3 ==
    /\ prog = "ex3"
    /\ pc = "reorder"
    /\ text \in BidiTexts
    /\ primary_font \in ShapingFaces
    /\ fallback_font = primary_font
    /\ hb_font_primary = NoFont
    /\ hb_font_fallback = NoFont
    /\ idx = 1
    /\ runs = <<>>
    /\ current_run = <<>>
    /\ use_primary = FALSE
    /\ x = 0
    /\ drawn = <<>>
    /\ shaped_runs = <<>>
    /\ blob = <<>>
    /\ x_cursor = 0
    /\ local_x = 0
    /\ gi = 0
    /\ error = "none"
    /\ display_text = <<>>
    /\ glyph_infos = <<>>
    /\ glyph_positions = <<>>
    /\ total_width = 0
    /\ ctm = Identity
    /\ saved = <<>>
    /\ x_accum = 0
    /\ image = NoImage
    /\ ft_bad = {}

\* BidiInfo::new(text, None) and reorder_line.
Reorder3 ==
    /\ prog = "ex3" /\ pc = "reorder"
    /\ display_text' = reorder_line(text)
    /\ pc' = "shape"
    /\ UNCHANGED <<inputs, image, idx, vars2, x, drawn, varsHb, vars4, error, glyph_infos,
                   glyph_positions, total_width, ctm, saved, vars56>>

\* HbFont::new(hb_face) with no set_scale; the buffer holds display_text with
\* Direction::Rtl; shape.
Shape3 ==
    /\ prog = "ex3" /\ pc = "shape"
    /\ hb_font_primary' = HbFontNew(primary_font)
    /\ LET shaped == HbShape(HbFontNew(primary_font), display_text, "Rtl")
       IN  /\ glyph_infos' = shaped.infos
           /\ glyph_positions' = shaped.positions
    /\ pc' = "alloc"
    /\ UNCHANGED <<inputs, image, idx, vars2, x, drawn, hb_font_fallback, vars4, error,
                   display_text, total_width, ctm, saved, vars56>>

\* alloc_run_pos(&primary_font, count, None) and `let mut x = 0.0`; a run of no
\* glyphs is not added to the builder.
AllocRun3 ==
    /\ prog = "ex3" /\ pc = "alloc"
    /\ LET count == Len(glyph_infos)
       IN  blob' = IF count = 0 THEN <<>>
                   ELSE <<[font |-> "Primary", glyphs |-> <<>>, point_positions |-> <<>>]>>
    /\ x' = 0
    /\ gi' = 1
    /\ pc' = "place"
    /\ UNCHANGED <<inputs, image, idx, vars2, drawn, varsHb, shaped_runs, x_cursor, local_x,
                   error, vars3, vars56>>

\* One iteration of `for i in 0..count`.
PlaceGlyph3 ==
    /\ prog = "ex3" /\ pc = "place" /\ gi <= Len(glyph_infos)
    /\ LET x_offset == Div64(glyph_positions[gi].x_offset)
           y_offset == Div64(glyph_positions[gi].y_offset)
           x_advance == Div64(glyph_positions[gi].x_advance)
       IN  /\ blob' = [blob EXCEPT
                          ![1].glyphs = Append(@, U16(glyph_infos[gi].codepoint)),
                          ![1].point_positions = Append(@, <<x + x_offset, y_offset>>)]
           /\ x' = x + x_advance
    /\ gi' = gi + 1
    /\ UNCHANGED <<inputs, image, pc, idx, vars2, drawn, varsHb, shaped_runs, x_cursor,
                   local_x,
                   error, vars3, vars56>>

\* `let total_width = x` and `blob_builder.make().ok_or("Failed to build TextBlob")?`
MakeBlob3 ==
    /\ prog = "ex3" /\ pc = "place" /\ gi > Len(glyph_infos)
    /\ total_width' = x
    /\ IF blob = <<>>
       THEN /\ error' = "Failed to build TextBlob"
            /\ pc' = "failed"
       ELSE /\ pc' = "save"
            /\ error' = error
    /\ UNCHANGED <<inputs, image, idx, vars2, x, drawn, varsHb, vars4, display_text,
                   glyph_infos,
                   glyph_positions, ctm, saved, vars56>>

\* The surface is made and cleared; canvas.save().
CanvasSave3 ==
    /\ prog = "ex3" /\ pc = "save"
    /\ saved' = Append(saved, ctm)
    /\ pc' = "translate"
    /\ UNCHANGED <<inputs, image, idx, vars2, x, drawn, varsHb, vars4, error, display_text,
                   glyph_infos, glyph_positions, total_width, ctm, vars56>>

\* canvas.translate((origin_x + total_width, origin_y))
CanvasTranslate3 ==
    /\ prog = "ex3" /\ pc = "translate"
    /\ ctm' = Translate(ctm, OriginX3 + total_width, OriginY3)
    /\ pc' = "scale"
    /\ UNCHANGED <<inputs, image, idx, vars2, x, drawn, varsHb, vars4, error, display_text,
                   glyph_infos, glyph_positions, total_width, saved, vars56>>

\* canvas.scale((-1.0, 1.0))
CanvasScale3 ==
    /\ prog = "ex3" /\ pc = "scale"
    /\ ctm' = ScaleX(ctm, -1)
    /\ pc' = "draw"
    /\ UNCHANGED <<inputs, image, idx, vars2, x, drawn, varsHb, vars4, error, display_text,
                   glyph_infos, glyph_positions, total_width, saved, vars56>>

\* canvas.draw_text_blob(&text_blob, (0.0, 0.0), ..) under the current transform.
DrawBlob3 ==
    /\ prog = "ex3" /\ pc = "draw"
    /\ drawn' = Append(drawn, [blob |-> blob, at |-> <<0, 0>>, ctm |-> ctm])
    /\ pc' = "restore"
    /\ UNCHANGED <<inputs, image, idx, vars2, x, varsHb, vars4, error, vars3, vars56>>

\* canvas.restore()
CanvasRestore3 ==
    /\ prog = "ex3" /\ pc = "restore"
    /\ ctm' = saved[Len(saved)]
    /\ saved' = SubSeq(saved, 1, Len(saved) - 1)
    /\ pc' = "write"
    /\ UNCHANGED <<inputs, image, idx, vars2, x, drawn, varsHb, vars4, error, display_text,
                   glyph_infos, glyph_positions, total_width, vars56>>

\* The image is encoded and written.
SaveImage3 ==
    /\ prog = "ex3" /\ pc = "write"
    /\ pc' = "done"
    /\ image' = Written(drawn)
    /\ UNCHANGED <<inputs, idx, vars2, x, drawn, varsHb, vars4, error, vars3, vars56>>

---------------------------------------------------------------------------
(* example-5 and example-6: glyph outlines drawn as paths *)

desired_font_size == 40

\* `let origin_x = 50.0` / `let origin_y = 100.0`, in 1/64 pixel
OriginX5 == 50 * 64

OriginY5 == 100 * 64

\* glyph_slot.outline() after load_glyph(glyph_id, NO_BITMAP): the contours
\* of the glyph in 26.6 pixels, each a start point and its curves; "none" for
\* a glyph that has no outline (the emoji, a bitmap glyph).  The joiner's
\* glyph has an outline of no contours.
FtOutline(gid) ==
    CASE gid = 0 ->
           <<[start |-> <<0, 0>>,
              curves |-> <<<<"Line", <<0, 1280>>>>, <<"Line", <<640, 1280>>>>,
                           <<"Line", <<640, 0>>>>>>]>>
      [] gid = 1 ->
           <<[start |-> <<64, 0>>,
              curves |-> <<<<"Bezier2", <<64, 640>>, <<320, 640>>>>,
                           <<"Line", <<320, 0>>>>>>],
             [start |-> <<128, 128>>,
              curves |-> <<<<"Line", <<256, 128>>>>, <<"Line", <<256, 384>>>>>>]>>
      [] gid = 2 ->
           <<[start |-> <<0, -128>>,
              curves |-> <<<<"Bezier3", <<64, 320>>, <<192, 320>>, <<256, -128>>>>>>]>>
      [] gid \in {3, 65539} -> "none"
      [] gid = 4 -> <<>>

\* The sets of glyph ids load_glyph fails for that the model is run with.
FtBadChoices == {{}, {3, 65539}}

\* A point of the outline as a point of the path: (x / 64, -y / 64).
PathPoint(pt) == <<Div64(pt[1]), Div64(-pt[2])>>

\* The path command of one curve of a contour.
CurveToPath(curve) ==
    CASE curve[1] = "Line" ->
           [op |-> "line_to", pts |-> <<PathPoint(curve[2])>>]
      [] curve[1] = "Bezier2" ->
           [op |-> "quad_to", pts |-> <<PathPoint(curve[2]), PathPoint(curve[3])>>]
      [] curve[1] = "Bezier3" ->
           [op |-> "cubic_to",
            pts |-> <<PathPoint(curve[2]), PathPoint(curve[3]), PathPoint(curve[4])>>]

\* A conversion that leaves the contours open.
ContourToPath_NoClose(contour) ==
    <<[op |-> "move_to", pts |-> <<PathPoint(contour.start)>>]>>
        \o [k \in 1..Len(contour.curves) |-> CurveToPath(contour.curves[k])]

\* One contour: move_to its start, its curves in order, close.
ContourToPath(contour) ==
    <<[op |-> "move_to", pts |-> <<PathPoint(contour.start)>>]>>
        \o [k \in 1..Len(contour.curves) |-> CurveToPath(contour.curves[k])]
        \o <<[op |-> "close", pts |-> <<>>]>>

\* `for contour in outline.contours_iter()`: the path of the whole outline.
RECURSIVE OutlineToPath(_)
OutlineToPath(outline) ==
    IF outline = <<>> THEN <<>>
    ELSE ContourToPath(Head(outline)) \o OutlineToPath(Tail(outline))

\* Path::offset((dx, dy))
PathOffset(path, dx, dy) ==
    [k \in 1..Len(path) |->
        [op |-> path[k].op,
         pts |-> [j \in 1..Len(path[k].pts) |->
                     <<path[k].pts[j][1] + dx, path[k].pts[j][2] + dy>>]]]

\* rustybuzz::shape(&face, &[], buffer): as HarfBuzz with a font whose scale
\* is the face's units per em; the glyph id is in `glyph_id`.
RbShape(face, s, dir) ==
    LET shaped == HbShape(HbFontNew(face), s, dir)
    IN  [infos |-> [i \in 1..Len(shaped.infos) |-> [glyph_id |-> shaped.infos[i].codepoint]],
         positions |-> shaped.positions]

Init5 ==
    /\ prog = "ex5"
    /\ pc = "set_scale"
    /\ text \in Texts
    /\ primary_font \in ShapingFaces
    /\ ft_bad \in FtBadChoices
    /\ hb_font_primary = HbFontNew(primary_font)
    /\ fallback_font = primary_font
    /\ hb_font_fallback = NoFont
    /\ idx = 1
    /\ runs = <<>>
    /\ current_run = <<>>
    /\ use_primary = FALSE
    /\ x = 0
    /\ drawn = <<>>
    /\ shaped_runs = <<>>
    /\ blob = <<>>
    /\ x_cursor = 0
    /\ local_x = 0
    /\ gi = 0
    /\ error = "none"
    /\ display_text = <<>>
    /\ glyph_infos = <<>>
    /\ glyph_positions = <<>>
    /\ total_width = 0
    /\ ctm = Identity
    /\ saved = <<>>
    /\ x_accum = 0
    /\ image = NoImage

Init6 ==
    /\ prog = "ex6"
    /\ pc = "shape"
    /\ text \in Texts
    /\ primary_font \in ShapingFaces
    /\ ft_bad \in FtBadChoices
    /\ hb_font_primary = NoFont
    /\ fallback_font = primary_font
    /\ hb_font_fallback = NoFont
    /\ idx = 1
    /\ runs = <<>>
    /\ current_run = <<>>
    /\ use_primary = FALSE
    /\ x = 0
    /\ drawn = <<>>
    /\ shaped_runs = <<>>
    /\ blob = <<>>
    /\ x_cursor = 0
    /\ local_x = 0
    /\ gi = 0
    /\ error = "none"
    /\ display_text = <<>>
    /\ glyph_infos = <<>>
    /\ glyph_positions = <<>>
    /\ total_width = 0
    /\ ctm = Identity
    /\ saved = <<>>
    /\ x_accum = 0
    /\ image = NoImage

\* `let hb_scale = (desired_font_size * 64.0) as i32; hb_font.set_scale(hb_scale, hb_scale)`
SetScale5 ==
    /\ prog = "ex5" /\ pc = "set_scale"
    /\ hb_font_primary' = SetScale(hb_font_primary, desired_font_size * 64)
    /\ pc' = "shape"
    /\ UNCHANGED <<inputs, image, idx, vars2, x, drawn, hb_font_fallback, vars4, error,
                   vars3,
                   vars56>>

\* The buffer holds the text with Direction::Rtl; shape; the surface is made,
\* `let mut x_accum = 0.0`.
Shape5 ==
    /\ prog = "ex5" /\ pc = "shape"
    /\ LET shaped_result == HbShape(hb_font_primary, text, "Rtl")
       IN  /\ glyph_infos' = shaped_result.infos
           /\ glyph_positions' = shaped_result.positions
    /\ x_accum' = 0
    /\ idx' = 1
    /\ pc' = "glyphs"
    /\ UNCHANGED <<inputs, image, vars2, x, drawn, varsHb, vars4, error, display_text,
                   total_width, ctm, saved>>

\* The buffer holds the text with Direction::LeftToRight; shape; the surface
\* is made, `let mut x_accum = 0.0`.
Shape6 ==
    /\ prog = "ex6" /\ pc = "shape"
    /\ LET glyph_buffer == RbShape(primary_font, text, "Ltr")
       IN  /\ glyph_infos' = glyph_buffer.infos
           /\ glyph_positions' = glyph_buffer.positions
    /\ x_accum' = 0
    /\ idx' = 1
    /\ pc' = "glyphs"
    /\ UNCHANGED <<inputs, image, vars2, x, drawn, varsHb, vars4, error, display_text,
                   total_width, ctm, saved>>

\* A glyph loop whose cursor stands still at a glyph without an outline.
GlyphStep_SkipNoAdvance(glyph_id, x_offset, y_offset, x_advance) ==
    LET glyph_origin_x == OriginX5 + x_accum + x_offset
        glyph_origin_y == OriginY5 + y_offset
        outline == FtOutline(glyph_id)
    IN  IF glyph_id \in ft_bad
        THEN /\ error' = "load_glyph failed"
             /\ pc' = "failed"
             /\ UNCHANGED <<idx, drawn, x_accum>>
        ELSE /\ drawn' = IF outline # "none"
                         THEN Append(drawn,
                                     [glyph |-> idx,
                                      path |-> PathOffset(OutlineToPath(outline),
                                                          glyph_origin_x, glyph_origin_y)])
                         ELSE drawn
             /\ x_accum' = IF outline # "none" THEN x_accum + x_advance ELSE x_accum
             /\ idx' = idx + 1
             /\ UNCHANGED <<pc, error>>

\* The body of the glyph loop of both examples, given the glyph id and the
\* offsets and advance in pixels: load_glyph(..)? returns the error from main;
\* a glyph with an outline is converted, moved to its origin and drawn; the
\* advance is added to x_accum.
GlyphStep(glyph_id, x_offset, y_offset, x_advance) ==
    LET glyph_origin_x == OriginX5 + x_accum + x_offset
        glyph_origin_y == OriginY5 + y_offset
        outline == FtOutline(glyph_id)
    IN  IF glyph_id \in ft_bad
        THEN /\ error' = "load_glyph failed"
             /\ pc' = "failed"
             /\ UNCHANGED <<idx, drawn, x_accum>>
        ELSE /\ drawn' = IF outline # "none"
                         THEN Append(drawn,
                                     [glyph |-> idx,
                                      path |-> PathOffset(OutlineToPath(outline),
                                                          glyph_origin_x, glyph_origin_y)])
                         ELSE drawn
             /\ x_accum' = x_accum + x_advance
             /\ idx' = idx + 1
             /\ UNCHANGED <<pc, error>>

\* One iteration of example-5's `for (info, pos) in ..`: positions are / 64.0.
PlaceGlyph5 ==
    /\ prog = "ex5" /\ pc = "glyphs" /\ idx <= Len(glyph_infos)
    /\ GlyphStep(glyph_infos[idx].codepoint,
                 Div64(glyph_positions[idx].x_offset),
                 Div64(glyph_positions[idx].y_offset),
                 Div64(glyph_positions[idx].x_advance))
    /\ UNCHANGED <<inputs, image, vars2, x, varsHb, vars4, vars3>>

\* One iteration of example-6's `for (info, pos) in ..`: positions are * scale,
\* `let scale = desired_font_size / upem`.
PlaceGlyph6 ==
    /\ prog = "ex6" /\ pc = "glyphs" /\ idx <= Len(glyph_infos)
    /\ LET upem == primary_font.upem
       IN  GlyphStep(glyph_infos[idx].glyph_id,
                     TimesScale(glyph_positions[idx].x_offset, desired_font_size, upem),
                     TimesScale(glyph_positions[idx].y_offset, desired_font_size, upem),
                     TimesScale(glyph_positions[idx].x_advance, desired_font_size, upem))
    /\ UNCHANGED <<inputs, image, vars2, x, varsHb, vars4, vars3>>

\* The glyph loop is over; the image is encoded and written.
SaveImage56 ==
    /\ prog \in {"ex5", "ex6"} /\ pc = "glyphs" /\ idx > Len(glyph_infos)
    /\ pc' = "done"
    /\ image' = Written(drawn)
    /\ UNCHANGED <<inputs, idx, vars2, x, drawn, varsHb, vars4, error, vars3, vars56>>

---------------------------------------------------------------------------
(* Properties of the run segmenter of example-2 *)

\* The strings of the runs, in the order they were pushed.
RunStrings == [k \in 1..Len(runs) |-> runs[k][1]]

\* Whether the primary font's character map has the code point.
Capable(c) == c \in primary_font.cmap

Segmented2 == prog = "ex2" /\ pc \in {"draw", "done"}

\* The run (index into runs) that holds the i-th code point of the text.
RunOfChar(i) ==
    CHOOSE k \in 1..Len(runs) :
        /\ SumSeq([j \in 1..(k - 1) |-> Len(runs[j][1])]) < i
        /\ i <= SumSeq([j \in 1..k |-> Len(runs[j][1])])

\* C1: the runs' strings, concatenated in push order, are the input text; while
\* the loop runs, the pushed runs followed by current_run are the prefix read so far.
C1_RunsConcatIsText ==
    /\ (prog = "ex2" /\ pc = "segment")
           => Concat(RunStrings) \o current_run = SubSeq(text, 1, idx - 1)
    /\ Segmented2 => Concat(RunStrings) = text

C1_Witness ==
    /\ prog = "ex2" /\ pc = "done"
    /\ Len(text) >= 3 /\ Len(runs) >= 2

\* C2 as stated: every text the primary font renders entirely gives exactly one
\* run, tagged primary.
C2_AllPrimaryOneRun_Original ==
    (Segmented2 /\ \A i \in 1..Len(text) : Capable(text[i]))
        => Len(runs) = 1 /\ runs[1][2] = TRUE

\* C2 (amended): every NON-EMPTY text the primary font renders entirely gives
\* exactly one run, tagged primary, holding the whole text.
C2_AllPrimaryOneRun ==
    (Segmented2 /\ text # <<>> /\ \A i \in 1..Len(text) : Capable(text[i]))
        => Len(runs) = 1 /\ runs[1][2] = TRUE /\ runs[1][1] = text

C2_Witness ==
    /\ prog = "ex2" /\ pc = "done"
    /\ Len(text) >= 2 /\ \A i \in 1..Len(text) : Capable(text[i])
    /\ Len(runs) = 1

\* The adjacent pairs of the text whose primary-font capability differs.
Switches == {i \in 1..(Len(text) - 1) : Capable(text[i]) # Capable(text[i + 1])}

\* C3: runs are maximal and non-empty: for a non-empty text there are
\* 1 + (number of capability switches) runs, every run is non-empty and its tag
\* is the capability of each of its characters, adjacent runs carry different
\* tags; a text that starts primary and switches once gives two runs, the
\* second tagged fallback.
C3_RunsMaximal ==
    (Segmented2 /\ text # <<>>) =>
        /\ Len(runs) = 1 + Cardinality(Switches)
        /\ \A k \in 1..Len(runs) :
               /\ runs[k][1] # <<>>
               /\ \A j \in 1..Len(runs[k][1]) : Capable(runs[k][1][j]) = runs[k][2]
        /\ \A k \in 1..(Len(runs) - 1) : runs[k][2] # runs[k + 1][2]
        /\ (Capable(text[1]) /\ Cardinality(Switches) = 1)
               => Len(runs) = 2 /\ runs[2][2] = FALSE

C3_Witness ==
    /\ prog = "ex2" /\ pc = "done"
    /\ Len(text) >= 3 /\ Cardinality(Switches) = 2 /\ Len(runs) = 3

\* C6: no two code points of one grapheme cluster are in different runs.
C6_ClustersNotSplit ==
    Segmented2 =>
        \A s \in ClusterStarts(text) :
            \A i \in s..ClusterEnd(text, s) : RunOfChar(i) = RunOfChar(s)

---------------------------------------------------------------------------
(* Properties of the fallback pipeline of example-4 *)

\* The per-cluster loop of example-4 is over.
Shaped4 == prog = "ex4" /\ pc \in {"assemble", "place", "draw", "done", "failed"}

\* The entries of shaped_runs that have glyphs: those that get a run of the blob.
NonEmptyEntries == SelectSeq(shaped_runs, LAMBDA e : Len(e[1]) > 0)

C5_EmptyTextNoRuns ==
    /\ (prog = "ex2" /\ text = <<>>) =>
           /\ error = "none"
           /\ Segmented2 => runs = <<>> /\ drawn = <<>> /\ x = StartX2
    /\ (prog = "ex4" /\ text = <<>>) =>
           /\ pc \in {"set_scale", "shape", "assemble"} => error = "none"
           /\ pc # "place"
           /\ shaped_runs = <<>> /\ blob = <<>> /\ x_cursor = 0

C5_Witness ==
    /\ prog = "ex2" /\ pc = "done" /\ text = <<>> /\ runs = <<>>

\* Whether the primary face has a glyph for some code point of the cluster.
PrimaryCovers(cluster) == \E i \in 1..Len(cluster) : cluster[i] \in primary_font.cmap

\* C7: every cluster gets exactly one font: Primary if and only if shaping it
\* with the primary font gives a glyph that is not .notdef (with this engine:
\* the primary face maps one of its code points); otherwise Fallback, with the
\* fallback font's shaping result whatever it is; and the loop reports no error.
C7_ClusterFontChoice ==
    /\ (prog = "ex4" /\ pc \in {"set_scale", "shape"}) => error = "none"
    /\ (prog = "ex4" /\ pc # "set_scale") =>
           \A k \in 1..Len(shaped_runs) :
               LET cluster == Graphemes(text)[k]
                   p == shape_cluster(hb_font_primary, cluster)
                   valid == \E i \in 1..Len(p.infos) : p.infos[i].codepoint # 0
               IN  /\ shaped_runs[k][3] \in {"Primary", "Fallback"}
                   /\ shaped_runs[k][3] = "Primary" <=> valid
                   /\ valid <=> PrimaryCovers(cluster)
                   /\ shaped_runs[k][3] = "Primary" => shaped_runs[k][1] = p.infos
                   /\ shaped_runs[k][3] = "Fallback" =>
                          shaped_runs[k][1] = shape_cluster(hb_font_fallback, cluster).infos
    /\ Shaped4 => Len(shaped_runs) = Len(Graphemes(text))

\* A cluster whose first glyph is .notdef while a later one is not went to the
\* primary font, and another cluster went to a fallback font that cannot render it.
C7_Witness ==
    /\ prog = "ex4" /\ pc = "done"
    /\ \E k \in 1..Len(shaped_runs) :
           /\ shaped_runs[k][3] = "Primary"
           /\ shaped_runs[k][1][1].codepoint = 0
    /\ \E k \in 1..Len(shaped_runs) :
           /\ shaped_runs[k][3] = "Fallback"
           /\ \A i \in 1..Len(shaped_runs[k][1]) : shaped_runs[k][1][i].codepoint = 0

---------------------------------------------------------------------------
(* Properties of glyph placement *)

\* The sum of the x_advance of the first n of the positions, in engine units.
SumAdvance(positions, n) == SumSeq([j \in 1..n |-> positions[j].x_advance])

\* example-4: the positions of all shaped runs, and the points of all runs of
\* the blob, each flattened in order.
AllPositions4 == Concat([k \in 1..Len(shaped_runs) |-> shaped_runs[k][2]])

AllPoints4 == Concat([k \in 1..Len(blob) |-> blob[k].point_positions])

\* C8: in engine units, the n-th glyph placed is at
\* (start + sum of the advances of the glyphs before it + its x_offset,
\* y_origin + its y_offset); the cursor holds the sum of the advances of the
\* glyphs placed so far, and the sum of all advances after the last glyph.
C8_GlyphPlacement ==
    /\ (prog = "ex3" /\ pc \in {"place", "save", "translate", "scale", "draw",
                                "restore", "write", "done", "failed"}) =>
           /\ \A n \in 1..Len(AllPoints4) :
                  AllPoints4[n] = <<0 + SumAdvance(glyph_positions, n - 1)
                                        + glyph_positions[n].x_offset,
                                    0 + glyph_positions[n].y_offset>>
           /\ x = SumAdvance(glyph_positions, Len(AllPoints4))
           /\ pc = "place" => Len(AllPoints4) = gi - 1
           /\ pc # "place" =>
                  /\ Len(AllPoints4) = Len(glyph_positions)
                  /\ total_width = SumAdvance(glyph_positions, Len(glyph_positions))
    /\ (prog = "ex4" /\ pc \in {"assemble", "place", "draw", "done", "failed"}) =>
           /\ \A n \in 1..Len(AllPoints4) :
                  AllPoints4[n] = <<0 + SumAdvance(AllPositions4, n - 1)
                                        + AllPositions4[n].x_offset,
                                    BaselineY4 + AllPositions4[n].y_offset>>
           /\ pc = "place" =>
                  x_cursor + local_x = SumAdvance(AllPositions4, Len(AllPoints4))
           /\ pc # "place" => x_cursor = SumAdvance(AllPositions4, Len(AllPoints4))
           /\ pc \in {"draw", "done", "failed"} =>
                  /\ Len(AllPoints4) = Len(AllPositions4)
                  /\ x_cursor = SumAdvance(AllPositions4, Len(AllPositions4))
    /\ (prog = "ex5" /\ pc \in {"glyphs", "done", "failed"}) =>
           /\ x_accum = SumAdvance(glyph_positions, idx - 1)
           /\ pc = "done" => x_accum = SumAdvance(glyph_positions, Len(glyph_positions))
           /\ \A k \in 1..Len(drawn) :
                  LET g == drawn[k].glyph
                  IN  drawn[k].path =
                          PathOffset(OutlineToPath(FtOutline(glyph_infos[g].codepoint)),
                                     OriginX5 + SumAdvance(glyph_positions, g - 1)
                                         + glyph_positions[g].x_offset,
                                     OriginY5 + glyph_positions[g].y_offset)

\* example-4 has placed the glyphs of three runs, one of them with offsets.
C8_Witness ==
    /\ prog = "ex4" /\ pc = "done"
    /\ Len(blob) = 3 /\ x_cursor > 0
    /\ \E n \in 1..Len(AllPositions4) :
           AllPositions4[n].x_offset # 0 /\ AllPositions4[n].y_offset # 0

\* The greater of two numbers.
Max(a, b) == IF a >= b THEN a ELSE b

\* C9: the mirrored block, which spans 0..total_width in the blob's own
\* coordinates, is drawn with its right edge at the anchor origin_x.
C9_RightEdgeAtAnchor ==
    (prog = "ex3" /\ drawn # <<>>) =>
        Max(DeviceX(drawn[1].ctm, 0), DeviceX(drawn[1].ctm, total_width)) = OriginX3

\* The pixel size the pipeline lays its text out at.
LayoutSize ==
    CASE prog \in {"ex5", "ex6"} -> desired_font_size
      [] prog = "ex4" -> px_size
      [] OTHER -> font_size

\* C10: a pipeline that divides the shaped values by 64 has set the scale of
\* its HarfBuzz font to size * 64, and the pipeline that multiplies by
\* size / upem reads design units; either way the advances it accumulates are
\* the glyphs' advances in pixels at the layout size.
C10_DivisorMatchesConvention ==
    /\ (prog \in {"ex3", "ex5"} /\ glyph_positions # <<>>) =>
           /\ hb_font_primary.scale_set
           /\ hb_font_primary.x_scale = LayoutSize * 64
    /\ (prog = "ex4" /\ shaped_runs # <<>>) =>
           /\ hb_font_primary.scale_set /\ hb_font_fallback.scale_set
           /\ hb_font_primary.x_scale = LayoutSize * 64
           /\ hb_font_fallback.x_scale = LayoutSize * 64
    /\ (prog = "ex3" /\ pc \in {"save", "done"}) =>
           total_width =
               SumSeq([j \in 1..Len(glyph_infos) |->
                          SkiaAdvance(primary_font, LayoutSize, glyph_infos[j].codepoint)])
    /\ (prog = "ex5" /\ pc = "done") =>
           x_accum =
               SumSeq([j \in 1..Len(glyph_infos) |->
                          SkiaAdvance(primary_font, LayoutSize, glyph_infos[j].codepoint)])
    /\ (prog = "ex6" /\ pc = "done") =>
           x_accum =
               SumSeq([j \in 1..Len(glyph_infos) |->
                          SkiaAdvance(primary_font, LayoutSize, glyph_infos[j].glyph_id)])

\* C15: when the font chosen for a cluster gives no glyph for it, example-4
\* reports it: a layout that finished with such a cluster has returned an
\* error for it.
C15_NoGlyphOutputReported ==
    (prog = "ex4" /\ pc = "done") =>
        \A k \in 1..Len(shaped_runs) :
            (Graphemes(text)[k] # <<>> /\ shaped_runs[k][1] = <<>>) => error # "none"

---------------------------------------------------------------------------
(* Properties of the BiDi handling of example-3 *)

\* C11: the text that reorder_line put into visual order is shaped as
\* left-to-right text: the shaping result is that of display_text with
\* direction Ltr, the engine reverses nothing on top of the reordering.
C11_ReorderedShapedLtr ==
    (prog = "ex3" /\ pc \notin {"reorder", "shape"}) =>
        LET ltr == HbShape(HbFontNew(primary_font), display_text, "Ltr")
        IN  /\ glyph_infos = ltr.infos
            /\ glyph_positions = ltr.positions

---------------------------------------------------------------------------
(* Properties of the vector pipelines, example-5 and example-6 *)

Vector == prog \in {"ex5", "ex6"}

\* The glyph id of the i-th glyph of the shaping result.
GlyphId56(i) ==
    IF prog = "ex5" THEN glyph_infos[i].codepoint ELSE glyph_infos[i].glyph_id

\* A position value of the shaping result in pixels (units of 1/64 px).
ToPx56(v) ==
    IF prog = "ex5" THEN v
    ELSE (v * desired_font_size * 64) \div primary_font.upem

\* The sum of the advances of the glyphs before the i-th.
CursorBefore(i) ==
    SumSeq([j \in 1..(i - 1) |-> ToPx56(glyph_positions[j].x_advance)])

\* The origin of the i-th glyph.
GlyphOriginX(i) ==
    OriginX5 + CursorBefore(i) + ToPx56(glyph_positions[i].x_offset)

GlyphOriginY(i) == OriginY5 + ToPx56(glyph_positions[i].y_offset)

\* The number of path commands of the contours before the c-th.
ContourBase(outline, c) ==
    SumSeq([j \in 1..(c - 1) |-> Len(outline[j].curves) + 2])

\* The command a segment of an outline is drawn with.
SegmentOp(kind) ==
    CASE kind = "Line" -> "line_to"
      [] kind = "Bezier2" -> "quad_to"
      [] kind = "Bezier3" -> "cubic_to"

\* The outline point pt, an x and a y in 26.6 fixed point, as the point
\* (x / 64, -y / 64) in units of 1/64 px of a glyph at origin (ox, oy).
EmittedPoint(pt, ox, oy) == <<pt[1] + ox, oy - pt[2]>>

\* C12: the path of every drawn glyph is, contour by contour in outline
\* order, one move_to at the contour's start, one command per segment in
\* order (line_to, quad_to, cubic_to by the segment's kind) and one close;
\* there are as many closes as contours, and every point is (x/64, -y/64)
\* of its outline point, moved to the glyph's origin.
C12_PathStructure ==
    Vector =>
        \A k \in 1..Len(drawn) :
            LET g == drawn[k].glyph
                path == drawn[k].path
                outline == FtOutline(GlyphId56(g))
                ox == GlyphOriginX(g)
                oy == GlyphOriginY(g)
            IN  /\ outline # "none"
                /\ Len(path) = ContourBase(outline, Len(outline) + 1)
                /\ Cardinality({j \in 1..Len(path) : path[j].op = "close"}) = Len(outline)
                /\ \A c \in 1..Len(outline) :
                       LET base == ContourBase(outline, c)
                           curves == outline[c].curves
                       IN  /\ path[base + 1].op = "move_to"
                           /\ path[base + 1].pts
                                  = <<EmittedPoint(outline[c].start, ox, oy)>>
                           /\ \A n \in 1..Len(curves) :
                                  /\ path[base + 1 + n].op = SegmentOp(curves[n][1])
                                  /\ path[base + 1 + n].pts
                                         = [j \in 1..(Len(curves[n]) - 1) |->
                                               EmittedPoint(curves[n][j + 1], ox, oy)]
                           /\ path[base + Len(curves) + 2].op = "close"

\* Both a glyph of two contours with a quadratic segment and a glyph with a
\* cubic segment were drawn, the second after a glyph with an advance.
C12_Witness ==
    /\ Vector /\ pc = "done"
    /\ \E k \in 1..Len(drawn) : Len(FtOutline(GlyphId56(drawn[k].glyph))) = 2
    /\ \E k \in 1..Len(drawn) :
           /\ \E j \in 1..Len(drawn[k].path) : drawn[k].path[j].op = "cubic_to"
           /\ CursorBefore(drawn[k].glyph) > 0

\* The glyphs before the i-th that have an outline.
WithOutline(i) == {j \in 1..(i - 1) : FtOutline(GlyphId56(j)) # "none"}

\* C13: a glyph without an outline is passed over without an error and
\* without a path, and the cursor advances by its x_advance as by any other
\* glyph's: the drawn paths are those of the glyphs with an outline, in
\* order, each at the origin the advances of ALL glyphs before it give.
C13_NoOutlineSkipped ==
    (Vector /\ pc \in {"glyphs", "done"}) =>
        /\ error = "none"
        /\ x_accum = CursorBefore(idx)
        /\ Len(drawn) = Cardinality(WithOutline(idx))
        /\ \A k \in 1..Len(drawn) :
               /\ drawn[k].glyph \in WithOutline(idx)
               /\ k > 1 => drawn[k - 1].glyph < drawn[k].glyph
               /\ drawn[k].path # <<>> =>
                      drawn[k].path[1].pts[1][1]
                          = FtOutline(GlyphId56(drawn[k].glyph))[1].start[1]
                                + GlyphOriginX(drawn[k].glyph)

\* A glyph without an outline and with an advance was passed over and a
\* later glyph was drawn.
C13_Witness ==
    /\ Vector /\ pc = "done" /\ error = "none"
    /\ \E i \in 1..Len(glyph_infos) :
           /\ FtOutline(GlyphId56(i)) = "none"
           /\ ToPx56(glyph_positions[i].x_advance) > 0
           /\ \E k \in 1..Len(drawn) : drawn[k].glyph > i /\ drawn[k].path # <<>>

\* C14: when load_glyph fails for a glyph, the failure is reported and the
\* glyphs drawn before it are still the program's output: the image written
\* shows the paths drawn so far.
C14_PrefixReturnedOnFailure ==
    (Vector /\ pc = "failed" /\ drawn # <<>>) =>
        /\ error # "none"
        /\ image.written
        /\ image.content = drawn

---------------------------------------------------------------------------
(* Properties of the glyph ids stored in the text blob *)

\* The glyph ids of a shaping result, in the engine's order.
EngineIds(infos) == [i \in 1..Len(infos) |-> infos[i].codepoint]

\* The glyph ids the engine reported for the glyphs placed so far.
ReportedIds ==
    IF prog = "ex3"
    THEN EngineIds(SubSeq(glyph_infos, 1, gi - 1))
    ELSE Concat([k \in 1..Len(shaped_runs) |->
                    IF k < idx THEN EngineIds(shaped_runs[k][1])
                    ELSE IF k = idx /\ pc = "place"
                         THEN EngineIds(SubSeq(shaped_runs[k][1], 1, gi - 1))
                         ELSE <<>>])

\* The glyph ids stored in the runs of the blob, in order.
StoredIds == Concat([r \in 1..Len(blob) |-> blob[r].glyphs])

\* C16: the glyph ids stored in the text blob are the ids the engine
\* reported, as many and in the same order, each with its value unchanged
\* by the store through `as u16`.
C16_StoredIdsAreEngineIds ==
    ((prog = "ex3" /\ pc \in {"place", "save", "translate", "scale", "draw",
                              "restore", "write", "done"})
        \/ (prog = "ex4" /\ pc \in {"assemble", "place", "draw", "done"})) =>
        StoredIds = ReportedIds

---------------------------------------------------------------------------

Init == Init2 \/ Init4 \/ Init3 \/ Init5 \/ Init6

Next ==
    \/ SegmentChar
    \/ FlushRun
    \/ DrawRun
    \/ SaveImage2
    \/ SetScale4
    \/ ShapeCluster4
    \/ BeginAssembly4
    \/ StartRun4
    \/ PlaceGlyph4
    \/ EndRun4
    \/ MakeBlob4
    \/ DrawBlob4
    \/ Reorder3
    \/ Shape3
    \/ AllocRun3
    \/ PlaceGlyph3
    \/ MakeBlob3
    \/ CanvasSave3
    \/ CanvasTranslate3
    \/ CanvasScale3
    \/ DrawBlob3
    \/ CanvasRestore3
    \/ SaveImage3
    \/ SetScale5
    \/ Shape5
    \/ Shape6
    \/ PlaceGlyph5
    \/ PlaceGlyph6
    \/ SaveImage56

Spec == Init /\ [][Next]_vars

====
